---- MODULE Spec2Model ----
(***************************************************************************)
(* Tournament registration backend (aticie/fastapi): the HTTP handlers of  *)
(* app.py over the relational schema of dbsql/models.py.                   *)
(*                                                                         *)
(* Each in-flight HTTP request occupies one slot.  A request acquires its  *)
(* database session through get_db, runs its handler one blocking call at  *)
(* a time (the two outbound OAuth2 calls, then each directory call as one  *)
(* database transaction), and releases the session in get_db's finally.    *)
(* Slots interleave freely: join_team and leave_team are plain `def`       *)
(* handlers run on the thread pool, and several worker processes may serve *)
(* the async handlers against the same database.                           *)
(*                                                                         *)
(* dbsql/crud.py is not part of the sources at hand: the directory         *)
(* operations are modelled from their contracts (section 4.3 of the        *)
(* specification); the schema constraints they run against are those of    *)
(* dbsql/models.py.                                                        *)
(***************************************************************************)
EXTENDS Naturals, Sequences, FiniteSets, TLC

VARIABLES users, teams, secret, req, left_from

vars == <<users, teams, secret, req, left_from>>

---------------------------------------------------------------------------
(* Bounds of the model *)

\* number of requests in flight at once
MaxInflight == 2
\* osu! account ids the primary provider may report: 1..MaxOsuId
MaxOsuId == 2
\* distinct values uuid.uuid4() may return: u1..uMaxUuid
MaxUuid == 1

Slots == 1..MaxInflight
OsuIds == 1..MaxOsuId
Uuids == {"u" \o ToString(i) : i \in 1..MaxUuid}
DiscordIds == {"d1"}
Titles == {"Alpha", "Beta"}
Secrets == {"k1"}

\* Python's None, for a missing cookie, a NULL column, an unset local
None == "<None>"
\* a team_hash no Team row carries
UnknownTeam == "md5(?)"
\* a local the handler has not assigned yet
Unset == "<unset>"
\* a profile JSON without an "id" key (an upstream error body)
NoId == 0

---------------------------------------------------------------------------
(* Identity hasher: app.py hash_with_secret / hash_with_random *)

\* hashlib.md5(s.encode()).hexdigest(), kept symbolic: equal digests only
\* for equal inputs
Md5(s) == "md5(" \o s \o ")"

\* str() as the f-string applies it to a cookie value (str | None)
PyStr(x) == IF x = None THEN "None" ELSE x

hash_with_secret_const(string_to_be_hashed) == Md5("+" \o secret)

hash_with_secret(string_to_be_hashed) ==
    Md5(ToString(string_to_be_hashed) \o "+" \o secret)

hash_with_random(string_to_be_hashed, uuid4) ==
    Md5(PyStr(string_to_be_hashed) \o "+" \o uuid4)

UserHashes == {Md5(ToString(i) \o "+" \o s) : i \in OsuIds, s \in Secrets}
\* what a client may send as the user_hash cookie: nothing, or an account hash
Cookies == {None} \cup UserHashes

---------------------------------------------------------------------------
(* Schema: dbsql/models.py *)

\* a row of "users" as create_osu_user inserts it
UserRow(h, id) ==
    [user_hash |-> h, osu_id |-> id, team_hash |-> None,
     discord_id |-> None, discord_linked |-> FALSE]

TeamRow(th, title) == [team_hash |-> th, title |-> title]

RowsOf(table) == {table[i] : i \in 1..Len(table)}

UserUniqueOk_none(rows, row, skip) == TRUE

\* users.user_hash primary key, users.osu_id unique, users.discord_id unique
\* (NULLs do not collide); `skip` is the index of the row being updated
UserUniqueOk(rows, row, skip) ==
    \A i \in 1..Len(rows) :
        i # skip =>
            /\ rows[i].user_hash # row.user_hash
            /\ rows[i].osu_id # row.osu_id
            /\ (row.discord_id # None => rows[i].discord_id # row.discord_id)

TeamUniqueOk_none(rows, row) == TRUE

\* teams.team_hash primary key, teams.title unique
TeamUniqueOk(rows, row) ==
    \A i \in 1..Len(rows) :
        /\ rows[i].team_hash # row.team_hash
        /\ rows[i].title # row.title

TeamFkOk_none(rows, th) == TRUE

\* users.team_hash is NULL or references teams.team_hash
TeamFkOk(rows, th) ==
    th = None \/ \E i \in 1..Len(rows) : rows[i].team_hash = th

\* Team.players: the back-reference from User.team_hash
PlayersIn(rows, th) == {u \in RowsOf(rows) : u.team_hash = th}

players(th) == PlayersIn(users, th)

\* the teams a user_hash is listed in
TeamsOf(h) == {t \in RowsOf(teams) : \E u \in players(t.team_hash) : u.user_hash = h}

---------------------------------------------------------------------------
(* Directory operations (dbsql/crud.py), each one transaction: the result  *)
(* carries the tables after it, its outcome and the rows it wrote.         *)

Result(u, t, s, w) == [users |-> u, teams |-> t, status |-> s, writes |-> w]

Failed(s) == Result(users, teams, s, 0)

\* index of the first row of `rows` with this primary key, 0 for none
FirstUser(rows, user_hash) ==
    IF \E i \in 1..Len(rows) : rows[i].user_hash = user_hash
    THEN CHOOSE i \in 1..Len(rows) :
            /\ rows[i].user_hash = user_hash
            /\ \A j \in 1..Len(rows) : rows[j].user_hash = user_hash => i <= j
    ELSE 0

get_user(user_hash) == FirstUser(users, user_hash)

\* the team reference of the row of `rows` with this hash
TeamIn(rows, h) ==
    IF FirstUser(rows, h) = 0 THEN None ELSE rows[FirstUser(rows, h)].team_hash

crud_create_osu_user(user_hash, osu_id) ==
    LET row == UserRow(user_hash, osu_id) IN
    IF UserUniqueOk(users, row, 0)
    THEN Result(Append(users, row), teams, "OK", 1)
    ELSE Failed("ConstraintViolation")

crud_upgrade_to_discord_user(user_hash, discord_id) ==
    LET i == get_user(user_hash) IN
    IF i = 0 THEN Failed("NotFound")
    ELSE LET row == [users[i] EXCEPT !.discord_id = discord_id,
                                     !.discord_linked = TRUE] IN
         IF UserUniqueOk(users, row, i)
         THEN Result([users EXCEPT ![i] = row], teams, "OK", 1)
         ELSE Failed("ConstraintViolation")

crud_create_team(title, user_hash, team_hash) ==
    LET i == get_user(user_hash)
        row == TeamRow(team_hash, title) IN
    IF ~TeamUniqueOk(teams, row) THEN Failed("ConstraintViolation")
    ELSE IF i = 0 THEN Failed("NotFound")
    ELSE Result([users EXCEPT ![i].team_hash = team_hash],
                Append(teams, row), "OK", 2)

crud_add_to_team(team_hash, user_hash) ==
    LET i == get_user(user_hash) IN
    IF i = 0 THEN Failed("NotFound")
    ELSE IF users[i].team_hash # None THEN Failed("ConstraintViolation")
    ELSE IF team_hash = None \/ ~TeamFkOk(teams, team_hash) THEN Failed("NotFound")
    ELSE Result([users EXCEPT ![i].team_hash = team_hash], teams, "OK", 1)

\* `without` is what the operation answers for a user on no team: the
\* contract leaves it open ("no-op or error")
crud_leave_team(user_hash, without) ==
    LET i == get_user(user_hash) IN
    IF i = 0 THEN Failed("NotFound")
    ELSE IF users[i].team_hash = None THEN Failed(without)
    ELSE Result([users EXCEPT ![i].team_hash = None], teams, "OK", 1)

---------------------------------------------------------------------------
(* Requests *)

Routes == {"osu_identify", "discord_identify", "create_team", "join_team", "leave_team"}

Errors == {"AuthenticationError", "NetworkError", "KeyError", "NotFound",
           "ConstraintViolation"}

Idle ==
    [route |-> None, pc |-> "idle", cookie |-> None, title |-> None,
     team_hash |-> None,
     session |-> "none", opened |-> 0, posts |-> 0, gets |-> 0,
     access_token |-> Unset, osu_id |-> NoId, discord_id |-> None,
     user_hash |-> None, db_user |-> 0, writes |-> 0, status |-> None,
     set_cookie |-> None, after_leave |-> FALSE]

Init ==
    /\ users = <<>>
    /\ teams = <<>>
    /\ secret \in Secrets
    /\ req = [r \in Slots |-> Idle]
    /\ left_from = [h \in Cookies |-> None]

\* the handler's first blocking call
Entry(route) ==
    IF route \in {"osu_identify", "discord_identify"} THEN "post" ELSE route

\* the user_hash cookie as the handler takes it; osu_identify declares none
CookieArgs(route) == IF route = "osu_identify" THEN {None} ELSE Cookies

\* what a client may send as the body's title (POST /team/create)
TitleArgs(route) == IF route = "create_team" THEN Titles ELSE {None}

\* what a client may send as the team_hash query parameter (POST /team/join)
TeamArgs(route) ==
    IF route = "join_team"
    THEN {t.team_hash : t \in RowsOf(teams)} \cup {UnknownTeam}
    ELSE {None}

\* get_db up to its yield: db = SessionLocal(), handed to the handler
get_db(r) ==
    /\ req[r].pc = "idle"
    /\ \A q \in Slots : q < r => req[q].pc # "idle"
    /\ \E route \in Routes :
        \E cookie \in CookieArgs(route),
           title \in TitleArgs(route), team_hash \in TeamArgs(route) :
            req' = [req EXCEPT ![r] =
                      [Idle EXCEPT !.route = route, !.pc = Entry(route),
                                   !.cookie = cookie, !.title = title,
                                   !.team_hash = team_hash,
                                   !.session = "open",
                                   !.opened = req[r].opened + 1]]
    /\ UNCHANGED <<users, teams, secret, left_from>>

\* the handler returned or raised: its locals are gone, the response (its
\* status and the cookie it sets) is on its way, and control goes to get_db's
\* finally
Return(r, status, fields) ==
    [Idle EXCEPT !.route = fields.route, !.pc = "finally", !.status = status,
                 !.set_cookie = fields.set_cookie, !.session = fields.session,
                 !.opened = fields.opened, !.posts = fields.posts,
                 !.access_token = fields.access_token,
                 !.after_leave = fields.after_leave,
                 !.gets = fields.gets, !.writes = fields.writes]

get_db_finally_on_success(status) ==
    IF status \in Errors THEN "open" ELSE "closed"

\* finally: db.close(), whatever the handler's outcome
get_db_finally(status) == "closed"

get_db_close(r) ==
    /\ req[r].pc = "finally"
    /\ req' = [req EXCEPT ![r] =
                 [Idle EXCEPT !.pc = "done", !.opened = req[r].opened,
                              !.status = req[r].status,
                              !.session = get_db_finally(req[r].status)]]
    /\ UNCHANGED <<users, teams, secret, left_from>>

---------------------------------------------------------------------------
(* OAuth bridge: app.py oauth2_authorization *)

\* what the token endpoint's JSON may give for contents.get("access_token")
TokenValues == {None, "", "tok"}

\* Python truthiness of an optional string
Falsy(x) == x \in {None, ""}

oauth2_token_unchecked(access_token) == "get"

\* if not access_token: raise HTTPException(500, ...)
oauth2_token_check(access_token) ==
    IF Falsy(access_token) THEN "raise" ELSE "get"

\* sess.post(token_endpoint, ...): the request fails, or answers a JSON body
oauth2_authorization_post(r) ==
    /\ req[r].pc = "post"
    /\ \/ req' = [req EXCEPT ![r] =
                    Return(r, "NetworkError", [req[r] EXCEPT !.posts = @ + 1])]
       \/ \E tok \in TokenValues :
            LET sent == [req[r] EXCEPT !.posts = @ + 1, !.access_token = tok] IN
            req' = [req EXCEPT ![r] =
                      IF oauth2_token_check(tok) = "raise"
                      THEN Return(r, "AuthenticationError", sent)
                      ELSE [sent EXCEPT !.pc = "get"]]
    /\ UNCHANGED <<users, teams, secret, left_from>>

\* sess.get(me_endpoint, ...), then the handler up to its first directory
\* call: me_result["id"] (KeyError without it), and for /osu-identify the
\* derived user_hash
oauth2_authorization_get(r) ==
    /\ req[r].pc = "get"
    /\ LET sent == [req[r] EXCEPT !.gets = @ + 1] IN
       \/ req' = [req EXCEPT ![r] = Return(r, "NetworkError", sent)]
       \/ req' = [req EXCEPT ![r] = Return(r, "KeyError", sent)]
       \/ /\ req[r].route = "osu_identify"
          /\ \E id \in OsuIds :
                req' = [req EXCEPT ![r] =
                          [sent EXCEPT !.osu_id = id,
                                       !.user_hash = hash_with_secret(id),
                                       !.pc = "get_user"]]
       \/ /\ req[r].route = "discord_identify"
          /\ \E id \in DiscordIds :
                req' = [req EXCEPT ![r] =
                          [sent EXCEPT !.discord_id = id, !.pc = "upgrade"]]
    /\ UNCHANGED <<users, teams, secret, left_from>>

---------------------------------------------------------------------------
(* GET /osu-identify: app.py osu_identify *)

osu_identify_always_create(db_user) == "create"

\* if db_user: return redirect
osu_identify_known(db_user) == IF db_user # 0 THEN "return" ELSE "create"

\* db_user = crud.get_user(db=db, user_hash=user_hash)
osu_identify_get_user(r) ==
    /\ req[r].pc = "get_user"
    /\ LET db_user == get_user(req[r].user_hash)
           found == [req[r] EXCEPT !.db_user = db_user] IN
       req' = [req EXCEPT ![r] =
                 IF osu_identify_known(db_user) = "return"
                 THEN Return(r, "Redirect",
                             [found EXCEPT !.set_cookie = req[r].user_hash])
                 ELSE [found EXCEPT !.pc = "create_osu_user"]]
    /\ UNCHANGED <<users, teams, secret, left_from>>

\* crud.create_osu_user(db=db, user=user); return redirect
osu_identify_create(r) ==
    /\ req[r].pc = "create_osu_user"
    /\ LET res == crud_create_osu_user(req[r].user_hash, req[r].osu_id)
           done == [req[r] EXCEPT !.writes = @ + res.writes] IN
       /\ users' = res.users
       /\ req' = [req EXCEPT ![r] =
                    IF res.status = "OK"
                    THEN Return(r, "Redirect",
                                [done EXCEPT !.set_cookie = req[r].user_hash])
                    ELSE Return(r, res.status, done)]
    /\ UNCHANGED <<teams, secret, left_from>>

---------------------------------------------------------------------------
(* GET /discord-identify: app.py discord_identify *)

discord_identify_upsert(user_hash, discord_id) ==
    IF get_user(user_hash) # 0
    THEN crud_upgrade_to_discord_user(user_hash, discord_id)
    ELSE Result(Append(users, [UserRow(user_hash, NoId) EXCEPT
                                  !.discord_id = discord_id,
                                  !.discord_linked = TRUE]),
                teams, "OK", 1)

\* crud.upgrade_to_discord_user(db=db, user_hash=user_hash, user=user)
discord_identify_upgrade(user_hash, discord_id) ==
    crud_upgrade_to_discord_user(user_hash, discord_id)

\* the directory call, then the redirect carrying the cookie
discord_identify(r) ==
    /\ req[r].pc = "upgrade"
    /\ LET res == discord_identify_upgrade(req[r].cookie, req[r].discord_id)
           done == [req[r] EXCEPT !.writes = @ + res.writes] IN
       /\ users' = res.users
       /\ req' = [req EXCEPT ![r] =
                    IF res.status = "OK"
                    THEN Return(r, "Redirect",
                                [done EXCEPT !.set_cookie = req[r].cookie])
                    ELSE Return(r, res.status, done)]
    /\ UNCHANGED <<teams, secret, left_from>>

---------------------------------------------------------------------------
(* POST /team/create, /team/join, /team/leave: app.py *)

\* the team reference of the user row with this hash
TeamOf(h) == TeamIn(users, h)

\* team_hash = hash_with_random(user_hash); crud.create_team(...)
create_team(title, user_hash, uuid4) ==
    crud_create_team(title, user_hash, hash_with_random(user_hash, uuid4))

join_team_swapped(team_hash, user_hash) == crud_add_to_team(user_hash, team_hash)

\* crud.add_to_team(db=db, team_hash=team_hash, user_hash=user_hash)
join_team(team_hash, user_hash) == crud_add_to_team(team_hash, user_hash)

leave_team_skipped(user_hash, without) == Result(users, teams, "OK", 0)

\* crud.leave_team(db=db, user_hash=user_hash)
leave_team(user_hash, without) == crud_leave_team(user_hash, without)

\* a handler's directory call takes effect and the handler returns
Commit(r, res, sent) ==
    /\ users' = res.users
    /\ teams' = res.teams
    /\ req' = [req EXCEPT ![r] =
                 Return(r, res.status, [sent EXCEPT !.writes = @ + res.writes])]

\* History: left_from[h] is the team the user h last left by a successful
\* leave_team, until a successful join_team or create_team of h; a join_team
\* request is marked after_leave when it follows such a leave of another team.

create_team_request(r) ==
    /\ req[r].pc = "create_team"
    /\ \E uuid4 \in Uuids :
        LET res == create_team(req[r].title, req[r].cookie, uuid4) IN
        /\ Commit(r, res, [req[r] EXCEPT
                              !.team_hash = hash_with_random(req[r].cookie, uuid4)])
        /\ left_from' = IF res.status = "OK"
                        THEN [left_from EXCEPT ![req[r].cookie] = None]
                        ELSE left_from
    /\ UNCHANGED secret

join_team_request(r) ==
    /\ req[r].pc = "join_team"
    /\ LET res == join_team(req[r].team_hash, req[r].cookie) IN
        /\ Commit(r, res, [req[r] EXCEPT
                              !.after_leave =
                                  left_from[req[r].cookie] \notin {None, req[r].team_hash}])
        /\ left_from' = IF res.status = "OK"
                        THEN [left_from EXCEPT ![req[r].cookie] = None]
                        ELSE left_from
    /\ UNCHANGED secret

leave_team_request(r) ==
    /\ req[r].pc = "leave_team"
    /\ \E without \in {"OK", "NotFound"} :
        LET res == leave_team(req[r].cookie, without) IN
        /\ Commit(r, res, req[r])
        /\ left_from' = IF res.status = "OK" /\ TeamOf(req[r].cookie) # None
                        THEN [left_from EXCEPT ![req[r].cookie] = TeamOf(req[r].cookie)]
                        ELSE left_from
    /\ UNCHANGED secret

---------------------------------------------------------------------------
\* the response is delivered; the slot is free for the next request
Respond(r) ==
    /\ req[r].pc = "done"
    /\ req' = [req EXCEPT ![r] = Idle]
    /\ UNCHANGED <<users, teams, secret, left_from>>

\* the steps the server takes for the request in slot r
Serve(r) ==
    \/ oauth2_authorization_post(r)
    \/ oauth2_authorization_get(r)
    \/ osu_identify_get_user(r)
    \/ osu_identify_create(r)
    \/ discord_identify(r)
    \/ create_team_request(r)
    \/ join_team_request(r)
    \/ leave_team_request(r)
    \/ get_db_close(r)
    \/ Respond(r)

Next ==
    \E r \in Slots :
        \/ get_db(r)
        \/ oauth2_authorization_post(r)
        \/ oauth2_authorization_get(r)
        \/ osu_identify_get_user(r)
        \/ osu_identify_create(r)
        \/ discord_identify(r)
        \/ create_team_request(r)
        \/ join_team_request(r)
        \/ leave_team_request(r)
        \/ get_db_close(r)
        \/ Respond(r)

Spec == Init /\ [][Next]_vars

\* One request at a time, and the server keeps serving the request it has: the
\* event loop and the thread pool run every handler that can take a step, and
\* an outbound call answers or fails (aiohttp's total timeout).
Alone(r) == \A q \in Slots \ {r} : req[q].pc = "idle"

NextSerial ==
    \E r \in Slots :
        \/ Alone(r) /\ get_db(r)
        \/ Alone(r) /\ oauth2_authorization_post(r)
        \/ Alone(r) /\ oauth2_authorization_get(r)
        \/ Alone(r) /\ osu_identify_get_user(r)
        \/ Alone(r) /\ osu_identify_create(r)
        \/ Alone(r) /\ discord_identify(r)
        \/ Alone(r) /\ create_team_request(r)
        \/ Alone(r) /\ join_team_request(r)
        \/ Alone(r) /\ leave_team_request(r)
        \/ Alone(r) /\ get_db_close(r)
        \/ Alone(r) /\ Respond(r)

FairSpec ==
    Init /\ [][NextSerial]_vars /\ \A r \in Slots : WF_vars(Alone(r) /\ Serve(r))

---------------------------------------------------------------------------
(* Properties *)

\* slot r takes the step
Acts(r) == req'[r] # req[r]

\* slot r's handler returns or raises in the step
Returns(r) == req[r].pc \notin {"idle", "finally", "done"} /\ req'[r].pc = "finally"

TeamExists(rows, th) == \E i \in 1..Len(rows) : rows[i].team_hash = th

AtMostOneTeam == \A h \in UserHashes : Cardinality(TeamsOf(h)) <= 1

JoinOnTeamedFails ==
    \A r \in Slots :
        (req[r].pc = "join_team" /\ Acts(r) /\ TeamOf(req[r].cookie) # None)
            => /\ req'[r].pc = "finally"
               /\ req'[r].status = "ConstraintViolation"
               /\ users' = users
               /\ teams' = teams

\* C1: every user is listed in at most one team, in every reachable state;
\* and POST /team/join for a user whose team reference is set fails with
\* ConstraintViolation and changes no row.
C1_OneTeamPerUser == []AtMostOneTeam /\ [][JoinOnTeamedFails]_vars

\* a join was refused while some team has the user as a player
C1_Witness ==
    \E r \in Slots :
        /\ req[r].route = "join_team"
        /\ req[r].pc = "finally"
        /\ req[r].status = "ConstraintViolation"
        /\ \E h \in UserHashes : Cardinality(TeamsOf(h)) = 1

\* C2: when /osu-identify looks up its user_hash and the row exists, the
\* request returns the redirect (cookie = that hash) at once: it has written
\* nothing and the users table is as before.
C2_SecondIdentifyNoInsert ==
    [][\A r \in Slots :
        (req[r].pc = "get_user" /\ Acts(r) /\ get_user(req[r].user_hash) # 0)
            => /\ req'[r].pc = "finally"
               /\ req'[r].status = "Redirect"
               /\ req'[r].set_cookie = req[r].user_hash
               /\ req'[r].writes = 0
               /\ users' = users]_vars

\* an identification of an account already stored has returned its redirect
C2_Witness ==
    \E r \in Slots :
        /\ req[r].route = "osu_identify"
        /\ req[r].pc = "finally"
        /\ req[r].status = "Redirect"
        /\ req[r].writes = 0
        /\ \E i \in 1..Len(users) : users[i].user_hash = req[r].set_cookie

\* C3: a successful POST /team/create appends exactly one Team row, with the
\* request's title and a team_hash = hash_with_random(cookie) that no Team row
\* carried before, and the creator's team reference is that team_hash.
C3_CreatorIsMember ==
    [][\A r \in Slots :
        (req[r].pc = "create_team" /\ Acts(r) /\ req'[r].status = "OK")
            => /\ Len(teams') = Len(teams) + 1
               /\ SubSeq(teams', 1, Len(teams)) = teams
               /\ LET new == teams'[Len(teams')] IN
                    /\ new.title = req[r].title
                    /\ ~TeamExists(teams, new.team_hash)
                    /\ \E u \in Uuids :
                          new.team_hash = hash_with_random(req[r].cookie, u)
                    /\ TeamIn(users', req[r].cookie) = new.team_hash]_vars

\* a team was created and its creator is among its players
C3_Witness ==
    \E r \in Slots :
        /\ req[r].route = "create_team"
        /\ req[r].pc = "finally"
        /\ req[r].status = "OK"
        /\ \E i \in 1..Len(teams) : players(teams[i].team_hash) # {}

\* C4: a /discord-identify request whose user_hash cookie is None or matches
\* no User row never succeeds: when it returns, it returns an error and sets
\* no cookie, no User row was created or modified, and if it got as far as
\* the user lookup the error is NotFound.
C4_DiscordUnknownUser ==
    [][\A r \in Slots :
        (req[r].route = "discord_identify" /\ Returns(r)
                /\ get_user(req[r].cookie) = 0)
            => /\ req'[r].status \in Errors
               /\ (req[r].pc = "upgrade" => req'[r].status = "NotFound")
               /\ req'[r].set_cookie = None
               /\ req'[r].writes = 0
               /\ users' = users]_vars

\* a /discord-identify got through the OAuth exchange and failed on the lookup
C4_Witness ==
    \E r \in Slots :
        /\ req[r].route = "discord_identify"
        /\ req[r].pc = "finally"
        /\ req[r].status = "NotFound"
        /\ req[r].gets = 1

\* C5: after a successful leave_team from team A, a join_team of the same
\* user for another existing team B succeeds; then the user's team reference
\* is B, the user is among B's players and not among A's.
C5_LeaveThenJoin ==
    [][\A r \in Slots :
        LET h == req[r].cookie
            A == left_from[h]
            B == req[r].team_hash IN
        (req[r].pc = "join_team" /\ Acts(r) /\ A # None /\ B # A
                /\ TeamExists(teams, B))
            => /\ req'[r].status = "OK"
               /\ TeamIn(users', h) = B
               /\ \E u \in PlayersIn(users', B) : u.user_hash = h
               /\ ~\E u \in PlayersIn(users', A) : u.user_hash = h]_vars

\* a user who had left one team has joined another
C5_Witness ==
    \E r \in Slots :
        /\ req[r].route = "join_team"
        /\ req[r].pc = "finally"
        /\ req[r].status = "OK"
        /\ req[r].after_leave

\* C6: per request, the token POST comes before the profile GET and each is
\* made at most once; a token response without a (non-empty) access_token
\* ends the request with the authentication error, no GET made and nothing
\* written; and once a token was received and the exchange is over, exactly
\* one POST and one GET were made.
C6_OAuthOrder ==
    \A r \in Slots :
        LET q == req[r] IN
        /\ q.gets <= q.posts
        /\ q.posts <= 1
        /\ (q.gets = 1 => q.access_token \notin {Unset, None, ""})
        /\ (q.access_token \in {None, ""}
                => /\ q.pc = "finally"
                   /\ q.status = "AuthenticationError"
                   /\ q.posts = 1
                   /\ q.gets = 0
                   /\ q.writes = 0)
        /\ (q.status = "AuthenticationError"
                => q.gets = 0 /\ q.writes = 0 /\ q.set_cookie = None)
        /\ (q.access_token \notin {Unset, None, ""} /\ q.pc # "get"
                => q.posts = 1 /\ q.gets = 1)
        /\ (q.pc \in {"get_user", "create_osu_user", "upgrade"}
                => q.posts = 1 /\ q.gets = 1)
        /\ (q.writes > 0 /\ q.route \in {"osu_identify", "discord_identify"}
                => q.posts = 1 /\ q.gets = 1)

\* a token response carried an empty access_token
C6_Witness ==
    \E r \in Slots :
        /\ req[r].access_token = ""
        /\ req[r].status = "AuthenticationError"

HashIsStable ==
    \A i \in 1..Len(users) : users[i].user_hash = hash_with_secret(users[i].osu_id)

IdentifyCookie ==
    \A r \in Slots :
        (req[r].route = "osu_identify" /\ Returns(r) /\ req'[r].status = "Redirect")
            => /\ req'[r].set_cookie = hash_with_secret(req[r].osu_id)
               /\ \E i \in 1..Len(users') :
                    /\ users'[i].osu_id = req[r].osu_id
                    /\ users'[i].user_hash = req'[r].set_cookie

\* C7: the primary key of every stored User row is hash_with_secret of its
\* osu id as computed now; and every /osu-identify that returns the redirect
\* sets the cookie to hash_with_secret of the profile's osu id, which is the
\* primary key of the row stored for that osu id.
C7_StableHash == []HashIsStable /\ [][IdentifyCookie]_vars

\* a first identification stored its row and set the cookie to its key
C7_Witness ==
    \E r \in Slots :
        /\ req[r].route = "osu_identify"
        /\ req[r].pc = "finally"
        /\ req[r].status = "Redirect"
        /\ req[r].writes = 1
        /\ req[r].set_cookie \in {users[i].user_hash : i \in 1..Len(users)}

\* C8: the users table never holds two rows with the same user_hash, however
\* the /osu-identify requests interleave.
C8_UniqueUserHash ==
    \A i, j \in 1..Len(users) : i # j => users[i].user_hash # users[j].user_hash

\* two identifications of one account raced: the later insert was rejected
C8_Witness ==
    \E r \in Slots :
        /\ req[r].route = "osu_identify"
        /\ req[r].pc = "finally"
        /\ req[r].status = "ConstraintViolation"
        /\ req[r].writes = 0

TeamReferencesResolve ==
    \A i \in 1..Len(users) :
        users[i].team_hash = None \/ TeamExists(teams, users[i].team_hash)

CreateTeamAtomic ==
    \A r \in Slots :
        (req[r].pc = "create_team" /\ Acts(r))
            => /\ req'[r].pc = "finally"
               /\ IF req'[r].status = "OK"
                  THEN /\ Len(teams') = Len(teams) + 1
                       /\ TeamIn(users', req[r].cookie) = teams'[Len(teams')].team_hash
                  ELSE teams' = teams /\ users' = users

SessionScoped ==
    \A r \in Slots :
        /\ req[r].opened <= 1
        /\ (req[r].pc # "idle" => req[r].opened = 1)
        /\ (req[r].session = "open" => req[r].pc \notin {"idle", "done"})
        /\ (req[r].pc = "done" => req[r].session = "closed")

\* C10: a request opens one session, no session is open once its request is
\* done, and every open session is eventually closed, whether the handler
\* returned or raised.
C10_SessionClosed ==
    /\ []SessionScoped
    /\ \A r \in Slots : (req[r].session = "open") ~> (req[r].session = "closed")

\* a request whose handler raised is done
C10_Witness ==
    \E r \in Slots :
        /\ req[r].pc = "done"
        /\ req[r].status \in Errors
        /\ req[r].session = "closed"

====
